---- MODULE Spec2Model ----
(***************************************************************************)
(* A model of rustc-build-sysroot's src/lib.rs: Sysroot::build_from_source *)
(* as a state machine over the file system it works on.                    *)
(*                                                                         *)
(* Two processes call build_from_source on the same sysroot directory, one *)
(* call after another or both at once.  Every file-system call of the      *)
(* function that another process can observe is one step; the calls that   *)
(* set up the invocation's own temporary directories are grouped by the    *)
(* phases the function's comments name.  A step that fails ends the        *)
(* invocation in the same step: the `?` return and the TempDir destructors *)
(* only touch the invocation's own temporary directories.                  *)
(*                                                                         *)
(* Option<T> is a sequence of length at most one: None is <<>>, Some(x) is *)
(* <<x>>.  A directory is the set of its entries [name, data]; a file's    *)
(* data is a sequence of characters.                                       *)
(***************************************************************************)
EXTENDS Integers, Sequences, FiniteSets

\* Number of build_from_source invocations in a behaviour.
MaxCalls == 2

\* Invocations are numbered as they are called; the number stands for the
\* unique names TempDir gives the directories of an invocation.
CallIds == 1..MaxCalls

\* The callers: two processes (or threads) working on the same sysroot.
Procs == {1, 2}

None == <<>>
Some(x) == <<x>>

----------------------------------------------------------------------------
(* Inputs                                                                   *)

\* src_dir: &Path, as its sequence of components.
SrcDirs == { <<"rust", "library">>, <<"alt", "library">> }

\* rustc_version: &VersionMeta.  A rustc built without git information
\* reports "commit-hash: unknown", which VersionMeta holds as None.
Versions ==
  { [semver |-> "1.60.0", commit_hash |-> Some("abc123")],
    [semver |-> "1.61.0", commit_hash |-> None] }

\* enum BuildMode
BuildMode == {"Build", "Check"}

\* Hash file name (in target/lib directory).
HASH_FILE_NAME == ".cargo-careful-hash"

----------------------------------------------------------------------------
(* Text: u64::to_string and str::parse::<u64>                               *)

Digits == <<"0", "1", "2", "3", "4", "5", "6", "7", "8", "9">>

IsDigit(c) == \E d \in 1..10 : Digits[d] = c

DigitVal(c) == (CHOOSE d \in 1..10 : Digits[d] = c) - 1

\* A to_string that emits the least significant digit first.
RECURSIVE to_string_lsd_first(_)
to_string_lsd_first(n) ==
  IF n < 10 THEN <<Digits[n + 1]>>
  ELSE <<Digits[(n % 10) + 1]>> \o to_string_lsd_first(n \div 10)

RECURSIVE to_string(_)
to_string(n) ==
  IF n < 10 THEN <<Digits[n + 1]>>
  ELSE Append(to_string(n \div 10), Digits[(n % 10) + 1])

RECURSIVE DigitsValue(_)
DigitsValue(s) ==
  IF s = <<>> THEN 0
  ELSE 10 * DigitsValue(SubSeq(s, 1, Len(s) - 1)) + DigitVal(s[Len(s)])

\* A parse that skips what is not a digit.
ParseU64_skips_non_digits(s) ==
  LET body == SelectSeq(s, IsDigit)
  IN  IF body = <<>> THEN Some(0) ELSE Some(DigitsValue(body))

\* str::parse::<u64>: an optional "+", then one or more decimal digits.
ParseU64(s) ==
  LET body == IF s # <<>> /\ s[1] = "+" THEN Tail(s) ELSE s
  IN  IF body # <<>> /\ \A k \in 1..Len(body) : IsDigit(body[k])
      THEN Some(DigitsValue(body))
      ELSE None

\* A byte that is not part of any UTF-8 text.
InvalidUtf8 == "<ff>"

\* Read::read_to_string: an error on data that is not UTF-8.
read_to_string(data) ==
  IF \E i \in 1..Len(data) : data[i] = InvalidUtf8 THEN None ELSE Some(data)

----------------------------------------------------------------------------
(* Hashing.  DefaultHasher is the standard library's; it is modelled as a   *)
(* polynomial accumulator that does not collide on the inputs of the model. *)

StrCode(s) ==
  CASE s = "rust"    -> 3
    [] s = "alt"     -> 5
    [] s = "library" -> 7
    [] s = "abc123"  -> 11
    [] OTHER         -> 13

HasherWrite(h, x) == h * 31 + x

RECURSIVE HashPath(_, _)
HashPath(h, p) ==
  IF p = <<>> THEN h
  ELSE HashPath(HasherWrite(h, StrCode(Head(p))), Tail(p))

\* <Option<String> as Hash>::hash: the discriminant, then the string.
HashOptionString(h, o) ==
  IF o = None THEN HasherWrite(h, 0)
  ELSE HasherWrite(HasherWrite(h, 1), StrCode(o[1]))

\* A hash that leaves the toolchain out.
sysroot_compute_hash_src_only(src_dir, rustc_version) == HashPath(1, src_dir)

sysroot_compute_hash(src_dir, rustc_version) ==
  HashOptionString(HashPath(1, src_dir), rustc_version.commit_hash)

----------------------------------------------------------------------------
(* The external builder.  cargo is run with "build" or "check" (lines       *)
(* 127-130) and fills <build_dir>/target/<target>/release/deps.  What it    *)
(* writes is its own business: `cargo check` leaves metadata files only,    *)
(* `cargo build` libraries as well, and either may leave a directory.  The  *)
(* model stamps every file with the subcommand and the invocation that      *)
(* produced it, so that the files of different builds are told apart.       *)

\* A subcommand that does not follow the mode.
ModeArg_ignores_mode(mode) == "build"

ModeArg(mode) == IF mode = "Build" THEN "build" ELSE "check"

ArtifactData(arg, n) == <<arg>> \o to_string(n)

\* The entries cargo may leave in the out dir, by name and file type.
OutLayouts(arg) ==
  IF arg = "build"
  THEN { { [name |-> "libstd.rlib", type |-> "file"],
           [name |-> "libstd.rmeta", type |-> "file"] },
         { [name |-> "libstd.rlib", type |-> "file"],
           [name |-> "incremental", type |-> "dir"] } }
  ELSE { { [name |-> "libstd.rmeta", type |-> "file"] },
         { [name |-> "libstd.rmeta", type |-> "file"],
           [name |-> "incremental", type |-> "dir"] } }

CargoOutput(layout, arg, n) ==
  { [name |-> e.name, type |-> e.type, data |-> ArtifactData(arg, n)] : e \in layout }

\* fs::copy(&entry, staging_dir.path().join(entry.file_name()))
CopiedFile(e) == [name |-> e.name, data |-> e.data]

\* File::create(path).write_all(data) in directory dir
WriteFile(dir, name, data) ==
  { e \in dir : e.name # name } \cup { [name |-> name, data |-> data] }

----------------------------------------------------------------------------
VARIABLES
  installed,    \* Option<dir>: <sysroot>/lib/rustlib/<target>/lib
  target_dir,   \* BOOLEAN: <sysroot>/lib/rustlib/<target> exists
  build_dir,    \* per invocation, Option<[files, out]>: the TempDir workspace
  staging_dir,  \* per invocation, Option<dir>: the TempDir in sysroot_dir
  calls,        \* the number of invocations so far
  pc,           \* per process, where it is in build_from_source
  id,           \* per process, the number of its invocation
  args,         \* per process, Option<[src_dir, rustc_version, mode]>
  rd,           \* per process, the entries fs::read_dir has yet to yield
  result,       \* per process, how its last invocation ended
  cargo_calls,  \* per process, how often the invocation called cargo_cmd()
  hist          \* history of the run, read by the properties only

vars == <<installed, target_dir, build_dir, staging_dir, calls, pc, id, args, rd,
          result, cargo_calls, hist>>

\* A read of the hash file from target_dir() instead of target_dir()/lib:
\* there is no such file.
sysroot_read_hash_wrong_dir == None

\* The hash file of the directory lib_dir, read and parsed: None when the
\* directory or the file is not there, when the file does not read as a
\* string, and when the string does not parse.
ReadHashFile(lib_dir) ==
  IF lib_dir = None THEN None
  ELSE IF \E e \in lib_dir[1] : e.name = HASH_FILE_NAME
       THEN LET hash == read_to_string((CHOOSE e \in lib_dir[1] :
                                          e.name = HASH_FILE_NAME).data)
            IN  IF hash = None THEN None ELSE ParseU64(hash[1])
       ELSE None

\* sysroot_read_hash reads self.target_dir().join("lib").join(HASH_FILE_NAME).
sysroot_read_hash == ReadHashFile(installed)

cur_hash(p) == sysroot_compute_hash(args[p][1].src_dir, args[p][1].rustc_version)

Running(p) == pc[p] \notin {"idle", "returned", "crashed"}

----------------------------------------------------------------------------
(* The file system before the first invocation: nothing installed, or an    *)
(* installation left by an earlier run for SeedArgs, or one whose hash file *)
(* does not parse, does not read as text, or is missing.                    *)

SeedArgs ==
  [src_dir |-> <<"rust", "library">>,
   rustc_version |-> [semver |-> "1.60.0", commit_hash |-> None]]

SeedOutput ==
  CargoOutput({ [name |-> "libstd.rlib", type |-> "file"],
                [name |-> "libstd.rmeta", type |-> "file"] }, "build", 0)

SeedArtifacts == { CopiedFile(e) : e \in SeedOutput }

SeedInstalled ==
  WriteFile(SeedArtifacts, HASH_FILE_NAME,
            to_string(sysroot_compute_hash(SeedArgs.src_dir, SeedArgs.rustc_version)))

InitInstalled ==
  { None,
    Some(SeedInstalled),
    Some(WriteFile(SeedArtifacts, HASH_FILE_NAME, <<"x">>)),
    Some(WriteFile(SeedArtifacts, HASH_FILE_NAME, <<"1", InvalidUtf8>>)),
    Some(SeedArtifacts) }

\* What the properties need to remember of the run.
\*   complete  installed as the last rename that succeeded, or the start, left it
\*   install   the last rename that succeeded (or the earlier run):
\*             Some([id, dir, out, src_dir, rustc_version])
\*   rename    the last rename step: Some([id, ok, dir])
\*   removed   a removal step ran since the last rename that succeeded
\*   last_ok   Some([src_dir, rustc_version]) of the call that returned Ok last,
\*             None once the installed directory has been touched since
\*   crashed   Some([src_dir, rustc_version]) of the invocation that crashed last
\*   noop_mode Some(mode) of the call that returned at once last
\*   before    per process, installed when its invocation was called
\*   touched   per process, its invocation has run a removal or a rename step
History(inst) ==
  [ complete |-> inst,
    install  |-> IF inst = Some(SeedInstalled)
                 THEN Some([id |-> 0, dir |-> SeedInstalled, out |-> SeedOutput,
                            src_dir |-> SeedArgs.src_dir,
                            rustc_version |-> SeedArgs.rustc_version])
                 ELSE None,
    rename   |-> None,
    removed  |-> FALSE,
    last_ok  |-> IF inst = Some(SeedInstalled) THEN Some(SeedArgs) ELSE None,
    crashed  |-> None,
    noop_mode |-> None,
    before   |-> [p \in Procs |-> None],
    touched  |-> [p \in Procs |-> FALSE] ]

Init ==
  /\ installed \in InitInstalled
  /\ target_dir = (installed # None)
  /\ build_dir = [c \in CallIds |-> None]
  /\ staging_dir = [c \in CallIds |-> None]
  /\ calls = 0
  /\ pc = [p \in Procs |-> "idle"]
  /\ id = [p \in Procs |-> 0]
  /\ args = [p \in Procs |-> None]
  /\ rd = [p \in Procs |-> {}]
  /\ result = [p \in Procs |-> ""]
  /\ cargo_calls = [p \in Procs |-> 0]
  /\ hist = History(installed)

----------------------------------------------------------------------------
(* build_from_source, step by step                                          *)

\* A return that forgets to remove the workspace.
Return_keeps_workspace(p, res) ==
  /\ pc' = [pc EXCEPT ![p] = "returned"]
  /\ result' = [result EXCEPT ![p] = res]
  /\ args' = [args EXCEPT ![p] = None]
  /\ build_dir' = build_dir
  /\ staging_dir' = [staging_dir EXCEPT ![id[p]] = None]
  /\ rd' = [rd EXCEPT ![p] = {}]

\* The function returns: its arguments and iterator are gone, and the
\* TempDirs it still owns are dropped, which removes them.
Return(p, res) ==
  /\ pc' = [pc EXCEPT ![p] = "returned"]
  /\ result' = [result EXCEPT ![p] = res]
  /\ args' = [args EXCEPT ![p] = None]
  /\ build_dir' = [build_dir EXCEPT ![id[p]] = None]
  /\ staging_dir' = [staging_dir EXCEPT ![id[p]] = None]
  /\ rd' = [rd EXCEPT ![p] = {}]

\* An early return: `?`, bail!, or a panic unwinding.
Fail(p, msg) == Return(p, msg)

Goto(p, label) ==
  /\ pc' = [pc EXCEPT ![p] = label]
  /\ UNCHANGED <<result, args>>

Forget(p) == [hist EXCEPT !.before[p] = None, !.touched[p] = FALSE]

\* A hash check that, in Build mode, also wants a library file installed.
CheckHash_looks_at_mode(p, src_dir, mode, rustc_version) ==
  /\ pc[p] \in {"idle", "returned"}
  /\ p = 1 \/ pc[1] \notin {"idle", "returned"}
  /\ calls < MaxCalls
  /\ calls' = calls + 1
  /\ id' = [id EXCEPT ![p] = calls + 1]
  /\ cargo_calls' = [cargo_calls EXCEPT ![p] = 0]
  /\ IF /\ sysroot_read_hash = Some(sysroot_compute_hash(src_dir, rustc_version))
        /\ mode = "Check" \/ \E e \in installed[1] : e.name = "libstd.rlib"
     THEN /\ pc' = [pc EXCEPT ![p] = "returned"]
          /\ result' = [result EXCEPT ![p] = "Ok"]
          /\ UNCHANGED args
          /\ hist' = [hist EXCEPT !.last_ok = Some([src_dir |-> src_dir,
                                                    rustc_version |-> rustc_version]),
                                   !.noop_mode = Some(mode)]
     ELSE /\ pc' = [pc EXCEPT ![p] = "prepare"]
          /\ result' = [result EXCEPT ![p] = ""]
          /\ args' = [args EXCEPT ![p] = Some([src_dir |-> src_dir,
                                                rustc_version |-> rustc_version,
                                                mode |-> mode])]
          /\ hist' = [hist EXCEPT !.before[p] = installed, !.noop_mode = None]
  /\ UNCHANGED <<installed, target_dir, build_dir, staging_dir, rd>>

\* Lines 63-75: the call; compute the hash, read the installed one, return if
\* they are equal.  (Process 2 is the one that calls while process 1 is busy
\* or dead.)
CheckHash(p, src_dir, mode, rustc_version) ==
  /\ pc[p] \in {"idle", "returned"}
  /\ p = 1 \/ pc[1] \notin {"idle", "returned"}
  /\ calls < MaxCalls
  /\ calls' = calls + 1
  /\ id' = [id EXCEPT ![p] = calls + 1]
  /\ cargo_calls' = [cargo_calls EXCEPT ![p] = 0]
  /\ IF sysroot_read_hash = Some(sysroot_compute_hash(src_dir, rustc_version))
     THEN /\ pc' = [pc EXCEPT ![p] = "returned"]
          /\ result' = [result EXCEPT ![p] = "Ok"]
          /\ UNCHANGED args
          /\ hist' = [hist EXCEPT !.last_ok = Some([src_dir |-> src_dir,
                                                    rustc_version |-> rustc_version]),
                                   !.noop_mode = Some(mode)]
     ELSE /\ pc' = [pc EXCEPT ![p] = "prepare"]
          /\ result' = [result EXCEPT ![p] = ""]
          /\ args' = [args EXCEPT ![p] = Some([src_dir |-> src_dir,
                                                rustc_version |-> rustc_version,
                                                mode |-> mode])]
          /\ hist' = [hist EXCEPT !.before[p] = installed, !.noop_mode = None]
  /\ UNCHANGED <<installed, target_dir, build_dir, staging_dir, rd>>

\* A PrepareWorkspace that clears the installed directory before the build.
PrepareWorkspace_cleans_target(p) ==
  /\ pc[p] = "prepare"
  /\ \/ /\ build_dir' = [build_dir EXCEPT ![id[p]] =
                           Some([files |-> {"Cargo.lock", "Cargo.toml", "lib.rs"},
                                 out |-> None])]
        /\ installed' = None
        /\ Goto(p, "cargo")
        /\ UNCHANGED <<staging_dir, rd, hist>>
     \/ /\ Fail(p, "failed to create tempdir")
        /\ UNCHANGED installed
        /\ hist' = Forget(p)
  /\ UNCHANGED <<target_dir, calls, id, cargo_calls>>

\* Lines 77-123: the workspace for cargo: the TempDir, Cargo.lock copied from
\* the parent of src_dir, Cargo.toml, and the empty lib.rs.
PrepareWorkspace(p) ==
  /\ pc[p] = "prepare"
  /\ \/ /\ build_dir' = [build_dir EXCEPT ![id[p]] =
                           Some([files |-> {"Cargo.lock", "Cargo.toml", "lib.rs"},
                                 out |-> None])]
        /\ Goto(p, "cargo")
        /\ UNCHANGED <<staging_dir, rd, hist>>
     \/ /\ \E msg \in {"failed to create tempdir", "failed to copy lockfile",
                       "failed to create manifest file", "failed to write manifest file",
                       "failed to create lib file"} : Fail(p, msg)
        /\ hist' = Forget(p)
  /\ UNCHANGED <<installed, target_dir, calls, id, cargo_calls>>

\* A builder step that runs the command a second time when it fails.
RunCargo_retries_once(p) ==
  /\ pc[p] = "cargo"
  /\ cargo_calls' = [cargo_calls EXCEPT ![p] = @ + 1]
  /\ \/ /\ \E layout \in OutLayouts(ModeArg(args[p][1].mode)) :
             build_dir' = [build_dir EXCEPT ![id[p]] =
               Some([@[1] EXCEPT !.out =
                       Some(CargoOutput(layout, ModeArg(args[p][1].mode), id[p]))])]
        /\ Goto(p, "mkstaging")
        /\ UNCHANGED <<staging_dir, rd, hist>>
     \/ /\ cargo_calls[p] = 0
        /\ UNCHANGED <<pc, result, args, build_dir, staging_dir, rd, hist>>
     \/ /\ cargo_calls[p] > 0
        /\ \E msg \in {"panic: failed to execute cargo for sysroot build",
                       "sysroot build failed"} : Fail(p, msg)
        /\ hist' = Forget(p)
  /\ UNCHANGED <<installed, target_dir, calls, id>>

\* Lines 125-150: cargo_cmd() is called and the command is run to its end.
RunCargo(p) ==
  /\ pc[p] = "cargo"
  /\ cargo_calls' = [cargo_calls EXCEPT ![p] = @ + 1]
  /\ \/ /\ \E layout \in OutLayouts(ModeArg(args[p][1].mode)) :
             build_dir' = [build_dir EXCEPT ![id[p]] =
               Some([@[1] EXCEPT !.out =
                       Some(CargoOutput(layout, ModeArg(args[p][1].mode), id[p]))])]
        /\ Goto(p, "mkstaging")
        /\ UNCHANGED <<staging_dir, rd, hist>>
     \/ /\ \E msg \in {"panic: failed to execute cargo for sysroot build",
                       "sysroot build failed"} : Fail(p, msg)
        /\ hist' = Forget(p)
  /\ UNCHANGED <<installed, target_dir, calls, id>>

\* Lines 153-161: TempDir::new_in(&self.sysroot_dir, "cargo-careful"), and
\* fs::read_dir(&out_dir)
CreateStagingDir(p) ==
  /\ pc[p] = "mkstaging"
  /\ \/ /\ staging_dir' = [staging_dir EXCEPT ![id[p]] = Some({})]
        /\ rd' = [rd EXCEPT ![p] = build_dir[id[p]][1].out[1]]
        /\ Goto(p, "copy")
        /\ UNCHANGED <<build_dir, hist>>
     \/ /\ \E msg \in {"failed to create staging dir", "failed to read cargo out dir"} :
             Fail(p, msg)
        /\ hist' = Forget(p)
  /\ UNCHANGED <<installed, target_dir, calls, id, cargo_calls>>

\* A copy loop that skips directories instead of asserting there are none.
CopyEntry_skips_directories(p) ==
  /\ pc[p] = "copy"
  /\ \E entry \in rd[p] :
       \/ /\ entry.type = "file"
          /\ staging_dir' = [staging_dir EXCEPT ![id[p]] =
                               Some(WriteFile(@[1], entry.name, entry.data))]
          /\ rd' = [rd EXCEPT ![p] = @ \ {entry}]
          /\ UNCHANGED <<pc, result, args, build_dir, hist>>
       \/ /\ entry.type # "file"
          /\ rd' = [rd EXCEPT ![p] = @ \ {entry}]
          /\ UNCHANGED <<pc, result, args, build_dir, staging_dir, hist>>
       \/ /\ Fail(p, "failed to copy cargo out file")
          /\ hist' = Forget(p)
  /\ UNCHANGED <<installed, target_dir, calls, id, cargo_calls>>

\* A copy loop that reads the files from the out dir of any invocation.
CopyEntry_reads_any_out_dir(p) ==
  /\ pc[p] = "copy"
  /\ \E entry \in rd[p] :
       \/ /\ entry.type = "file"
          /\ \E c \in CallIds :
               /\ build_dir[c] # None /\ build_dir[c][1].out # None
               /\ \E src \in build_dir[c][1].out[1] :
                    /\ src.name = entry.name /\ src.type = "file"
                    /\ staging_dir' = [staging_dir EXCEPT ![id[p]] =
                                         Some(WriteFile(@[1], entry.name, src.data))]
          /\ rd' = [rd EXCEPT ![p] = @ \ {entry}]
          /\ UNCHANGED <<pc, result, args, build_dir, hist>>
       \/ /\ entry.type # "file"
          /\ Fail(p, "panic: cargo out dir must not contain directories")
          /\ hist' = Forget(p)
       \/ /\ \E msg \in {"failed to read cargo out dir entry",
                         "failed to copy cargo out file"} : Fail(p, msg)
          /\ hist' = Forget(p)
  /\ UNCHANGED <<installed, target_dir, calls, id, cargo_calls>>

\* Lines 161-170: one turn of the loop; read_dir yields in no particular order.
CopyEntry(p) ==
  /\ pc[p] = "copy"
  /\ \E entry \in rd[p] :
       \/ /\ entry.type = "file"
          /\ staging_dir' = [staging_dir EXCEPT ![id[p]] =
                               Some(WriteFile(@[1], entry.name, entry.data))]
          /\ rd' = [rd EXCEPT ![p] = @ \ {entry}]
          /\ UNCHANGED <<pc, result, args, build_dir, hist>>
       \/ /\ entry.type # "file"
          /\ Fail(p, "panic: cargo out dir must not contain directories")
          /\ hist' = Forget(p)
       \/ /\ \E msg \in {"failed to read cargo out dir entry",
                         "failed to copy cargo out file"} : Fail(p, msg)
          /\ hist' = Forget(p)
  /\ UNCHANGED <<installed, target_dir, calls, id, cargo_calls>>

\* Lines 172-176: the hash file goes into the staging dir.
WriteHash(p) ==
  /\ pc[p] = "copy"
  /\ rd[p] = {}
  /\ \/ /\ staging_dir' = [staging_dir EXCEPT ![id[p]] =
                             Some(WriteFile(@[1], HASH_FILE_NAME, to_string(cur_hash(p))))]
        /\ Goto(p, "exists")
        /\ UNCHANGED <<build_dir, rd, hist>>
     \/ /\ \E msg \in {"failed to create hash file", "failed to write hash file"} :
             Fail(p, msg)
        /\ hist' = Forget(p)
  /\ UNCHANGED <<installed, target_dir, calls, id, cargo_calls>>

\* An existence test that looks for the hash file instead of the directory.
TargetLibDirExists_by_hash_file(p) ==
  /\ pc[p] = "exists"
  /\ Goto(p, IF installed # None /\ (\E e \in installed[1] : e.name = HASH_FILE_NAME)
             THEN "remove" ELSE "mkparent")
  /\ UNCHANGED <<installed, target_dir, build_dir, staging_dir, calls, id, rd,
                 cargo_calls, hist>>

\* Lines 179-180: target_lib_dir.exists()
TargetLibDirExists(p) ==
  /\ pc[p] = "exists"
  /\ Goto(p, IF installed # None THEN "remove" ELSE "mkparent")
  /\ UNCHANGED <<installed, target_dir, build_dir, staging_dir, calls, id, rd,
                 cargo_calls, hist>>

\* Lines 181-183: fs::remove_dir_all(&target_lib_dir) unlinks the entries one
\* by one and then removes the directory; it fails when the path is gone.
RemoveDirAll(p) ==
  /\ pc[p] = "remove"
  /\ \/ /\ installed # None
        /\ \E e \in installed[1] : installed' = Some(installed[1] \ {e})
        /\ UNCHANGED <<pc, result, args, build_dir, staging_dir, rd>>
        /\ hist' = [hist EXCEPT !.removed = TRUE, !.last_ok = None, !.touched[p] = TRUE]
     \/ /\ installed = Some({})
        /\ installed' = None
        /\ Goto(p, "mkparent")
        /\ UNCHANGED <<build_dir, staging_dir, rd>>
        /\ hist' = [hist EXCEPT !.removed = TRUE, !.last_ok = None, !.touched[p] = TRUE]
     \/ /\ Fail(p, "failed to clean sysroot target dir")
        /\ UNCHANGED installed
        /\ hist' = Forget(p)
  /\ UNCHANGED <<target_dir, calls, id, cargo_calls>>

\* An install that takes the parent directory for granted.
CreateDirAll_skipped(p) ==
  /\ pc[p] = "mkparent"
  /\ \/ /\ Goto(p, "rename")
        /\ UNCHANGED <<build_dir, staging_dir, rd, hist>>
     \/ /\ Fail(p, "failed to create target directory")
        /\ hist' = Forget(p)
  /\ UNCHANGED <<installed, target_dir, calls, id, cargo_calls>>

\* Lines 184-189: fs::create_dir_all(target_lib_dir.parent())
CreateDirAll(p) ==
  /\ pc[p] = "mkparent"
  /\ \/ /\ target_dir' = TRUE
        /\ Goto(p, "rename")
        /\ UNCHANGED <<build_dir, staging_dir, rd, hist>>
     \/ /\ Fail(p, "failed to create target directory")
        /\ UNCHANGED target_dir
        /\ hist' = Forget(p)
  /\ UNCHANGED <<installed, calls, id, cargo_calls>>

\* An install that copies the staged files into the target directory instead
\* of renaming the staging directory.
Rename_copies_into_place(p) ==
  /\ pc[p] = "rename"
  /\ LET dir == staging_dir[id[p]][1]
         old == IF installed = None THEN {} ELSE installed[1]
     IN  /\ installed' = Some({ e \in old : \A f \in dir : f.name # e.name } \cup dir)
         /\ Return(p, "Ok")
         /\ hist' = [Forget(p) EXCEPT
                       !.complete = Some(dir),
                       !.install = Some([id |-> id[p], dir |-> dir,
                                         out |-> build_dir[id[p]][1].out[1],
                                         src_dir |-> args[p][1].src_dir,
                                         rustc_version |-> args[p][1].rustc_version]),
                       !.rename = Some([id |-> id[p], ok |-> TRUE, dir |-> dir]),
                       !.removed = FALSE,
                       !.last_ok = Some([src_dir |-> args[p][1].src_dir,
                                         rustc_version |-> args[p][1].rustc_version])]
  /\ UNCHANGED <<target_dir, calls, id, cargo_calls>>

\* Lines 190-192: fs::rename(staging_dir.path(), target_lib_dir), then Ok(()).
\* rename(2) replaces nothing but an empty directory.  After it the staging
\* TempDir has nothing left to remove when it is dropped.
Rename(p) ==
  /\ pc[p] = "rename"
  /\ LET dir == staging_dir[id[p]][1]
     IN  \/ /\ target_dir
            /\ installed \in {None, Some({})}
            /\ installed' = Some(dir)
            /\ Return(p, "Ok")
            /\ hist' = [Forget(p) EXCEPT
                          !.complete = Some(dir),
                          !.install = Some([id |-> id[p], dir |-> dir,
                                            out |-> build_dir[id[p]][1].out[1],
                                            src_dir |-> args[p][1].src_dir,
                                            rustc_version |-> args[p][1].rustc_version]),
                          !.rename = Some([id |-> id[p], ok |-> TRUE, dir |-> dir]),
                          !.removed = FALSE,
                          !.last_ok = Some([src_dir |-> args[p][1].src_dir,
                                            rustc_version |-> args[p][1].rustc_version])]
         \/ /\ Fail(p, "failed installing sysroot")
            /\ UNCHANGED installed
            /\ hist' = [Forget(p) EXCEPT
                          !.rename = Some([id |-> id[p], ok |-> FALSE, dir |-> dir])]
  /\ UNCHANGED <<target_dir, calls, id, cargo_calls>>

\* The process is killed: nothing is dropped, the temporary directories stay.
Crash(p) ==
  /\ Running(p)
  /\ pc' = [pc EXCEPT ![p] = "crashed"]
  /\ result' = [result EXCEPT ![p] = "crash"]
  /\ args' = [args EXCEPT ![p] = None]
  /\ rd' = [rd EXCEPT ![p] = {}]
  /\ hist' = [Forget(p) EXCEPT !.crashed = Some([src_dir |-> args[p][1].src_dir,
                                                 rustc_version |-> args[p][1].rustc_version])]
  /\ UNCHANGED <<installed, target_dir, build_dir, staging_dir, calls, id, cargo_calls>>

\* A caller calls build_from_source.
Call(p) ==
  \E src_dir \in SrcDirs, mode \in BuildMode, rustc_version \in Versions :
    CheckHash(p, src_dir, mode, rustc_version)

\* The invocation goes on, or its process dies.
Work(p) ==
    \/ PrepareWorkspace(p)
    \/ RunCargo(p)
    \/ CreateStagingDir(p)
    \/ CopyEntry(p)
    \/ WriteHash(p)
    \/ TargetLibDirExists(p)
    \/ RemoveDirAll(p)
    \/ CreateDirAll(p)
    \/ Rename(p)
    \/ Crash(p)

\* Both processes, interleaved in any way.
Next == \E p \in Procs : Call(p) \/ Work(p)

Spec == Init /\ [][Next]_vars

\* One invocation at a time: a process is called only when no other runs.
NextSeq ==
  \E p \in Procs :
    \/ (\A q \in Procs \ {p} : ~Running(q)) /\ Call(p)
    \/ Work(p)

SpecSeq == Init /\ [][NextSeq]_vars

----------------------------------------------------------------------------
(* Vocabulary of the properties                                             *)

Inputs(a) == [src_dir |-> a.src_dir, rustc_version |-> a.rustc_version]

HashOf(a) == sysroot_compute_hash(a.src_dir, a.rustc_version)

AllInputs ==
  { [src_dir |-> s, rustc_version |-> v] : s \in SrcDirs, v \in Versions } \cup {SeedArgs}

\* The directory a build that left `out` is to install for hash h.
Staged(out, h) == WriteFile({ CopiedFile(e) : e \in out }, HASH_FILE_NAME, to_string(h))

HasDirectory(out) == \E e \in out : e.type # "file"

\* This step is process p calling build_from_source.
IsCall(p) == calls' = calls + 1 /\ id'[p] = calls + 1

\* The inputs of the call this step makes.
CallInputs(p) ==
  IF pc'[p] = "prepare" THEN Inputs(args'[p][1]) ELSE hist'.last_ok[1]

\* The call returns Ok at once: no workspace, no cargo_cmd(), nothing installed.
NoOp(p) ==
  /\ pc'[p] = "returned" /\ result'[p] = "Ok"
  /\ cargo_calls'[p] = 0
  /\ UNCHANGED <<installed, build_dir, staging_dir>>

\* The installation the last successful rename (or the earlier run) made is in place.
InstallInPlace == hist.install # None /\ installed = Some(hist.install[1].dir)

PreInstallFailures ==
  { "failed to create tempdir", "failed to copy lockfile",
    "failed to create manifest file", "failed to write manifest file",
    "failed to create lib file",
    "panic: failed to execute cargo for sysroot build", "sysroot build failed",
    "failed to create staging dir", "failed to read cargo out dir",
    "failed to read cargo out dir entry", "failed to copy cargo out file",
    "panic: cargo out dir must not contain directories",
    "failed to create hash file", "failed to write hash file" }

----------------------------------------------------------------------------
\* C1: at every instant the installed library directory is the previous
\* complete state or the new complete state, never a partial one: it is what
\* the start, or the last rename that succeeded, left there.
C1_OldOrNewComplete == installed = hist.complete

\* C2: a call with the inputs of the call that returned Ok just before it
\* (nothing touched the installed directory in between) returns Ok without
\* setting up a workspace or calling cargo_cmd; and no invocation runs the
\* builder more than once.
C2_Idempotent ==
  /\ [](\A p \in Procs : cargo_calls[p] <= 1)
  /\ [][\A p \in Procs :
          (IsCall(p) /\ hist.last_ok # None /\ CallInputs(p) = hist.last_ok[1])
            => NoOp(p)]_vars

\* A second call has returned Ok without building, after a first call built
\* and installed for the same inputs.
C2_Witness ==
  \E p \in Procs :
    /\ pc[p] = "returned" /\ result[p] = "Ok" /\ cargo_calls[p] = 0
    /\ InstallInPlace
    /\ hist.install[1].id >= 1 /\ id[p] > hist.install[1].id
    /\ hist.last_ok = Some(Inputs(hist.install[1]))

\* C3: when the rename fails after a successful build, the directory that
\* was installed before the call is unchanged.
C3_RenameFailureKeepsOld ==
  [][\A p \in Procs :
       (pc[p] = "rename" /\ result'[p] = "failed installing sysroot"
          /\ hist.before[p] # None)
         => installed' = hist.before[p]]_vars

\* C4: whenever no invocation is running and the installed hash file parses
\* to the hash of some inputs, the installed directory is the complete output
\* of a successful build for those inputs, with that hash file.
C4_FingerprintProvesComplete ==
  \A a \in AllInputs :
    ((\A p \in Procs : ~Running(p)) /\ sysroot_read_hash = Some(HashOf(a)))
      => /\ hist.install # None
         /\ HashOf(hist.install[1]) = HashOf(a)
         /\ installed = Some(Staged(hist.install[1].out, HashOf(a)))

\* C5: an invocation that fails before the install phase has run no removal
\* and no rename, and leaves the installed directory as it was at the call.
C5_EarlyFailureLeavesInstalled ==
  [][\A p \in Procs :
       (Running(p) /\ result'[p] \in PreInstallFailures)
         => /\ ~hist.touched[p]
            /\ installed' = hist.before[p]
            /\ target_dir' = target_dir]_vars

\* An invocation failed at the last step before the install phase, with an
\* installation in place.
C5_Witness ==
  \E p \in Procs :
    /\ pc[p] = "returned" /\ result[p] = "failed to write hash file"
    /\ installed = Some(SeedInstalled)

\* C6 as claimed: with an installation for (S, V) in place, a call with S and
\* another toolchain, or with V and another source directory, rebuilds.
C6_AnyChangeRebuilds ==
  [][\A p \in Procs :
       (/\ IsCall(p)
        /\ InstallInPlace
        /\ \/ /\ CallInputs(p).src_dir = hist.install[1].src_dir
              /\ CallInputs(p).rustc_version # hist.install[1].rustc_version
           \/ /\ CallInputs(p).src_dir # hist.install[1].src_dir
              /\ CallInputs(p).rustc_version = hist.install[1].rustc_version)
         => pc'[p] = "prepare"]_vars

\* C6 as amended: with an installation for (S, V) in place, a call with S and
\* a toolchain of another commit hash, or with V and another source
\* directory, does not return at once: it goes on to rebuild.
C6_CommitOrSourceChangeRebuilds ==
  [][\A p \in Procs :
       (/\ IsCall(p)
        /\ InstallInPlace
        /\ \/ /\ CallInputs(p).src_dir = hist.install[1].src_dir
              /\ CallInputs(p).rustc_version.commit_hash
                   # hist.install[1].rustc_version.commit_hash
           \/ /\ CallInputs(p).src_dir # hist.install[1].src_dir
              /\ CallInputs(p).rustc_version = hist.install[1].rustc_version)
         => pc'[p] = "prepare"]_vars

\* A call is rebuilding over the installation an earlier call made for the
\* same source directory and another commit hash.
C6_Witness ==
  \E p \in Procs :
    /\ pc[p] = "cargo"
    /\ InstallInPlace /\ hist.install[1].id >= 1
    /\ args[p][1].src_dir = hist.install[1].src_dir
    /\ args[p][1].rustc_version.commit_hash # hist.install[1].rustc_version.commit_hash

\* C7: when a call that built returns Ok, the installed hash file reads back
\* as the hash computed for the inputs of that call.
C7_RoundTrip ==
  [][\A p \in Procs :
       (pc[p] = "rename" /\ result'[p] = "Ok")
         => /\ cargo_calls[p] = 1
            /\ ReadHashFile(installed') = Some(cur_hash(p))]_vars

\* A call has built and returned Ok, and its hash is what is read back.
C7_Witness ==
  \E p \in Procs :
    /\ pc[p] = "returned" /\ result[p] = "Ok" /\ cargo_calls[p] = 1
    /\ hist.install # None /\ hist.install[1].id = id[p]
    /\ sysroot_read_hash = Some(HashOf(hist.install[1]))

\* C8: an invocation whose out dir holds a directory never gets past the
\* copy loop: it runs no removal and no rename, and the installed directory
\* stays as it was at the call.
C8_DirectoryEntryStopsBeforeInstall ==
  \A p \in Procs :
    (/\ Running(p)
     /\ build_dir[id[p]] # None
     /\ build_dir[id[p]][1].out # None
     /\ HasDirectory(build_dir[id[p]][1].out[1]))
      => /\ pc[p] \in {"mkstaging", "copy"}
         /\ ~hist.touched[p]
         /\ installed = hist.before[p]

\* An invocation has hit the directory entry and panicked, the installation
\* of the earlier run still in place.
C8_Witness ==
  \E p \in Procs :
    /\ pc[p] = "returned"
    /\ result[p] = "panic: cargo out dir must not contain directories"
    /\ installed = Some(SeedInstalled)

\* C9 as claimed: when two overlapping invocations have both built and
\* reached their rename, what is installed in the end is the staging
\* directory of the rename that ran last.
C9_LastRenameWins ==
  (/\ \A p \in Procs :
        /\ pc[p] = "returned" /\ cargo_calls[p] = 1
        /\ result[p] \in {"Ok", "failed installing sysroot"}
   /\ installed # None)
    => installed = Some(hist.rename[1].dir)

\* C9 as amended: what is installed is the staging directory (the
\* invocation's own outputs and hash file) of the rename that succeeded last,
\* for as long as no removal step has run since.
C9_LastSuccessfulRenameWins ==
  (hist.install # None /\ hist.install[1].id >= 1 /\ ~hist.removed)
    => /\ installed = Some(hist.install[1].dir)
       /\ hist.install[1].dir = Staged(hist.install[1].out, HashOf(hist.install[1]))

\* Two overlapping invocations have both built; the rename that ran last
\* failed, and the staging directory of the other one is installed.
C9_Witness ==
  /\ \A p \in Procs : pc[p] = "returned" /\ cargo_calls[p] = 1
  /\ hist.rename # None /\ ~hist.rename[1].ok
  /\ hist.install # None
  /\ hist.install[1].id >= 1 /\ hist.install[1].id # hist.rename[1].id
  /\ ~hist.removed
  /\ installed = Some(hist.install[1].dir)

\* C10 as claimed: the rename step of a Check invocation does not replace
\* the installed directory.
C10_CheckInstallsNothing ==
  [][\A p \in Procs :
       (pc[p] = "rename" /\ args[p][1].mode = "Check") => installed' = installed]_vars

\* C10 as amended: a Check invocation runs the builder with "check", and when
\* it returns Ok the installed directory is what that run left in the out
\* dir, with the hash file: the same install as in Build mode.
C10_CheckInstallsCheckOutput ==
  [][\A p \in Procs :
       (pc[p] = "rename" /\ result'[p] = "Ok" /\ args[p][1].mode = "Check")
         => LET out == build_dir[id[p]][1].out[1]
            IN  /\ installed' = Some(Staged(out, cur_hash(p)))
                /\ \A e \in out : e.data[1] = "check"]_vars

\* The output of a Check invocation is installed.
C10_Witness ==
  /\ InstallInPlace
  /\ hist.install[1].out # {}
  /\ \A e \in hist.install[1].out : e.data[1] = "check"

\* C11: once an invocation has returned (Ok, an error, or a panic that
\* unwound), its workspace and its staging directory are gone; when it returns
\* Ok after a build, its staging directory is what is installed; and a call
\* gets a number, hence directory names, that no other invocation holds and
\* under which nothing is on disk; only the running invocation of that number
\* creates directories under it.
C11_ScopedTemporaries ==
  /\ [](\A p \in Procs :
          (pc[p] = "returned" /\ id[p] \in CallIds)
            => build_dir[id[p]] = None /\ staging_dir[id[p]] = None)
  /\ [][\A p \in Procs :
          /\ (pc[p] = "rename" /\ result'[p] = "Ok")
               => installed' = Some(staging_dir[id[p]][1])
          /\ IsCall(p)
               => /\ build_dir[id'[p]] = None /\ staging_dir[id'[p]] = None
                  /\ \A q \in Procs \ {p} : id[q] # id'[p]]_vars
  /\ [][\A c \in CallIds :
          (\/ build_dir[c] = None /\ build_dir'[c] # None
           \/ staging_dir[c] = None /\ staging_dir'[c] # None)
            => \E q \in Procs : id[q] = c /\ Running(q)]_vars

\* An invocation built, staged, failed at the rename and returned: both its
\* directories are gone, while an earlier invocation's, which crashed, are
\* still there.
C11_Witness ==
  \E p \in Procs, q \in Procs :
    /\ pc[p] = "returned" /\ result[p] = "failed installing sysroot"
    /\ build_dir[id[p]] = None /\ staging_dir[id[p]] = None
    /\ pc[q] = "crashed" /\ build_dir[id[q]] # None /\ staging_dir[id[q]] # None

\* The installed directory is not there, or has no hash file, or has one
\* that is not UTF-8 text, is empty, or holds a character that is neither a
\* digit nor a sign.
HashFileUnusable ==
  \/ installed = None
  \/ \A e \in installed[1] : e.name # HASH_FILE_NAME
  \/ \E e \in installed[1] :
       /\ e.name = HASH_FILE_NAME
       /\ \/ e.data = <<>>
          \/ \E i \in 1..Len(e.data) :
               e.data[i] = InvalidUtf8 \/ ~(IsDigit(e.data[i]) \/ e.data[i] = "+")

\* C12: whenever the hash file is missing, unreadable or not a decimal
\* number (the installed directory not being there included),
\* sysroot_read_hash is None, and a call made then neither fails nor returns
\* at once: it goes on to rebuild.
C12_SoftFailRead ==
  /\ [](HashFileUnusable => sysroot_read_hash = None)
  /\ [][\A p \in Procs :
          (IsCall(p) /\ HashFileUnusable) => (pc'[p] = "prepare" /\ result'[p] = "")]_vars

\* An invocation is running the builder after it found a hash file that
\* does not read as text.
C12_Witness ==
  \E p \in Procs :
    /\ pc[p] = "cargo"
    /\ hist.before[p] # None
    /\ \E e \in hist.before[p][1] :
         e.name = HASH_FILE_NAME /\ e.data = <<"1", InvalidUtf8>>

\* C13: after an invocation crashed, the directories it leaked stay as they
\* are and belong to no other invocation; a later invocation, run on its own,
\* finds at its rename the installation path free and its parent there; and
\* when a later invocation with the inputs of the crashed one has returned
\* Ok (and nothing has touched the installed directory since), the installed
\* directory is the complete output of a build for those inputs with the hash
\* of those inputs.
C13_CrashRecovery ==
  /\ [](\A p \in Procs, q \in Procs :
          (Running(p) /\ pc[q] = "crashed") => id[p] # id[q])
  /\ [](\A p \in Procs :
          (hist.crashed # None /\ pc[p] = "rename")
            => (target_dir /\ installed \in {None, Some({})}))
  /\ [][\A q \in Procs :
          (pc[q] = "crashed" /\ pc'[q] = "crashed")
            => /\ build_dir'[id[q]] = build_dir[id[q]]
               /\ staging_dir'[id[q]] = staging_dir[id[q]]]_vars
  /\ [](\A p \in Procs :
          (/\ hist.crashed # None
           /\ pc[p] = "returned" /\ result[p] = "Ok"
           /\ hist.last_ok = hist.crashed)
            => /\ hist.install # None
               /\ Inputs(hist.install[1]) = hist.crashed[1]
               /\ hist.install[1].out # {}
               /\ installed = Some(Staged(hist.install[1].out, HashOf(hist.crashed[1])))
               /\ sysroot_read_hash = Some(HashOf(hist.crashed[1])))

\* An invocation crashed in its install phase, leaking both its directories;
\* a later invocation with the same inputs built and installed.
C13_Witness ==
  \E p \in Procs, q \in Procs :
    /\ pc[q] = "crashed"
    /\ build_dir[id[q]] # None /\ staging_dir[id[q]] # None
    /\ \E e \in staging_dir[id[q]][1] : e.name = HASH_FILE_NAME
    /\ pc[p] = "returned" /\ result[p] = "Ok" /\ cargo_calls[p] = 1
    /\ hist.install # None /\ hist.install[1].id = id[p]
    /\ Inputs(hist.install[1]) = hist.crashed[1]
    /\ installed = Some(hist.install[1].dir)
    /\ hist.complete = installed

\* The out dir of the running invocation of process p.
OutDir(p) == build_dir[id[p]][1].out[1]

\* C14: two invocations running at once have different workspaces and staging
\* directories; the files in an invocation's out dir are those its own
\* builder run wrote; its staging directory never holds anything but copies
\* of them and its own hash file; and what it is about to rename into place
\* is exactly those copies with that hash file.
C14_IndependentAttempts ==
  /\ \A p \in Procs, q \in Procs :
       (p # q /\ Running(p) /\ Running(q)) => id[p] # id[q]
  /\ \A p \in Procs :
       (Running(p) /\ pc[p] \notin {"prepare", "cargo"})
         => /\ \A e \in OutDir(p) :
                 e.type = "file" => e.data = ArtifactData(ModeArg(args[p][1].mode), id[p])
            /\ pc[p] # "mkstaging"
                 => staging_dir[id[p]][1] \subseteq Staged(OutDir(p), cur_hash(p))
            /\ pc[p] \in {"exists", "remove", "mkparent", "rename"}
                 => staging_dir[id[p]][1] = Staged(OutDir(p), cur_hash(p))

\* Both invocations are at their rename, each with its own builder's files
\* and its own hash in its staging directory.
C14_Witness ==
  /\ \A p \in Procs : pc[p] = "rename"
  /\ staging_dir[id[1]][1] # staging_dir[id[2]][1]
  /\ cur_hash(1) # cur_hash(2)
  /\ \A e \in staging_dir[id[1]][1], f \in staging_dir[id[2]][1] : e.data # f.data

\* The staging directory of process p holds the hash file of its invocation.
HashStaged(p) ==
  \E e \in staging_dir[id[p]][1] :
    e.name = HASH_FILE_NAME /\ e.data = to_string(cur_hash(p))

\* C15: with one invocation at a time, the install phase starts only once
\* the hash file is in the staging directory, and runs in the order: removal
\* (when the directory is there), creation of the parent, rename, no other
\* step changing the installed directory.  The creation of the parent starts
\* with the installation path gone, and the rename with the path gone and its
\* parent there.
C15_InstallOrder ==
  /\ [](\A p \in Procs :
          /\ pc[p] \in {"exists", "remove", "mkparent", "rename"} => HashStaged(p)
          /\ pc[p] = "remove" => hist.before[p] # None
          /\ pc[p] = "mkparent" => installed = None
          /\ pc[p] = "rename" => (installed = None /\ target_dir))
  /\ [][\A p \in Procs :
          /\ (pc'[p] = "exists" /\ pc[p] # "exists") => pc[p] = "copy"
          /\ (pc'[p] = "remove" /\ pc[p] # "remove") => pc[p] = "exists"
          /\ (pc'[p] = "mkparent" /\ pc[p] # "mkparent") => pc[p] \in {"exists", "remove"}
          /\ (pc'[p] = "rename" /\ pc[p] # "rename") => pc[p] = "mkparent"
          /\ (pc[p] = "rename" /\ result'[p] = "Ok")
               => installed' = Some(staging_dir[id[p]][1])]_vars
  /\ [][installed' # installed => \E p \in Procs : pc[p] \in {"remove", "rename"}]_vars

\* An invocation that found a directory installed has removed it, created
\* the parent, and is at its rename.
C15_Witness ==
  \E p \in Procs :
    /\ pc[p] = "rename"
    /\ hist.before[p] # None /\ hist.touched[p]
    /\ installed = None /\ target_dir
    /\ HashStaged(p)

\* The errors of lines 78-123, raised before the builder is set up.
SetupFailures ==
  { "failed to create tempdir", "failed to copy lockfile",
    "failed to create manifest file", "failed to write manifest file",
    "failed to create lib file" }

\* C16: an invocation calls the builder at most once: not at all when the
\* installed hash matches (it returns Ok at once) or when the workspace setup
\* fails, and once in every other case, whether the builder fails to launch,
\* fails, or succeeds and whatever happens after it.
C16_NoRetry ==
  /\ [](\A p \in Procs :
          /\ cargo_calls[p] \in {0, 1}
          /\ pc[p] \in {"prepare", "cargo"} => cargo_calls[p] = 0
          /\ pc[p] \in {"mkstaging", "copy", "exists", "remove", "mkparent", "rename"}
               => cargo_calls[p] = 1
          /\ (pc[p] = "returned" /\ result[p] \in SetupFailures) => cargo_calls[p] = 0
          /\ (pc[p] = "returned" /\ result[p] \notin SetupFailures \cup {"Ok"})
               => cargo_calls[p] = 1)
  /\ [][\A p \in Procs :
          /\ (IsCall(p) /\ sysroot_read_hash = Some(HashOf(CallInputs(p))))
               => (pc'[p] = "returned" /\ result'[p] = "Ok" /\ cargo_calls'[p] = 0)
          /\ (IsCall(p) /\ sysroot_read_hash # Some(HashOf(CallInputs(p))))
               => (pc'[p] = "prepare" /\ cargo_calls'[p] = 0)
          /\ (pc[p] = "rename" /\ result'[p] = "Ok") => cargo_calls'[p] = 1
          /\ (pc[p] = "cargo" /\ pc'[p] # "crashed")
               => (cargo_calls'[p] = 1 /\ pc'[p] \in {"mkstaging", "returned"})]_vars

\* An invocation whose builder failed has returned, the builder called once.
C16_Witness ==
  \E p \in Procs :
    /\ pc[p] = "returned" /\ result[p] = "sysroot build failed"
    /\ cargo_calls[p] = 1

\* The mode of the call this step makes.
CallMode(p) ==
  IF pc'[p] = "prepare" THEN args'[p][1].mode ELSE hist'.noop_mode[1]

\* What is installed is the output of an invocation in Check mode.
CheckOutputInstalled ==
  /\ InstallInPlace
  /\ hist.install[1].id >= 1
  /\ hist.install[1].out # {}
  /\ \A e \in hist.install[1].out : e.data[1] = "check"

\* C17: with the output of a successful Check invocation installed, a call
\* in Build mode with the same source directory and a toolchain of the same
\* commit hash returns Ok at once: the builder is not called and the Check
\* output stays installed.
C17_ModeIndependent ==
  [][\A p \in Procs :
       (/\ IsCall(p)
        /\ CheckOutputInstalled
        /\ CallMode(p) = "Build"
        /\ CallInputs(p).src_dir = hist.install[1].src_dir
        /\ CallInputs(p).rustc_version.commit_hash
             = hist.install[1].rustc_version.commit_hash)
         => (NoOp(p) /\ CheckOutputInstalled')]_vars

\* A Build call has returned Ok at once, the output of a Check invocation
\* for the same inputs installed.
C17_Witness ==
  \E p \in Procs :
    /\ pc[p] = "returned" /\ result[p] = "Ok" /\ cargo_calls[p] = 0
    /\ hist.noop_mode = Some("Build")
    /\ CheckOutputInstalled
    /\ hist.last_ok = Some(Inputs(hist.install[1]))
    /\ \A e \in installed[1] : e.name # "libstd.rlib"

====
